---- MODULE Spec2Model ----
(***************************************************************************)
(* Model of service::raft_rpc (src/service/raft/raft_rpc.cc, raft_rpc.hh): *)
(* the RPC transport binding the Raft engine to the messaging service.     *)
(*                                                                         *)
(* State: the shutdown gate (seastar::gate: a counter and a "stopped"      *)
(* promise), the with_gate chains that are in flight, the request/response *)
(* sends in flight, the address map of the raft group registry, and the    *)
(* observable effects of the handler that ran last (what its caller got,   *)
(* what it handed to the messaging service, what it logged).               *)
(***************************************************************************)
EXTENDS Naturals, Integers, Sequences, FiniteSets, TLC

\* ---------------------------------------------------------------- bounds
\* with_gate chains and request/response sends that may be in flight at once
MaxInFlight == 2

\* ---------------------------------------------------------------- values
Ids == {"s1", "s2"}                      \* raft::server_id
Addrs == {10, 20}                        \* gms::inet_address (as a number)
NoSend == <<>>                           \* nothing handed to the messaging service
NoId == "-"

\* raft::server_info payloads handed to add_server: byte strings
Payloads == {<<>>, <<10>>, <<20, 10>>}

\* the six fire-and-forget operations, raft_rpc.hh:51-56
FireAndForget ==
    {"send_append_entries_reply", "send_vote_request", "send_vote_reply",
     "send_timeout_now", "send_read_quorum", "send_read_quorum_reply"}

\* the request/response operations, raft_rpc.hh:49-50,57
RequestResponse ==
    {"send_snapshot", "send_append_entries", "execute_read_barrier_on_leader"}

\* what the messaging service reports for a send: success, rpc::timeout_error,
\* any other exception
Outcomes == {"ok", "timeout", "error"}

\* message values handed to an operation by its caller
Msgs == {"m1", "m2"}

\* readings of raft_group_registry::ticker_type::clock::now(), in milliseconds
Times == {0, 30}

\* the values of raft::snapshot_reply and of raft::read_barrier_reply
SnapshotReplies == {"snapshot_reply_success", "snapshot_reply_failure"}

ReadBarrierReplies == {"read_barrier_index", "read_barrier_not_a_leader"}

VARIABLES
    gate_count,     \* seastar::gate::_count of _shutdown_gate
    gate_stopped,   \* seastar::gate::_stopped is engaged (close() was called)
    abort_pc,       \* the future abort() returned: "idle" (not called), "waiting", "done"
    crashed,        \* the process died on an assertion
    in_flight,      \* [gated, id, phase] -> number of such sends in flight
    addr_map,       \* the registry's map: known id -> [addr, expirable]
    admin,          \* per id, the last change of its mapping: "none", "add" (with the
                    \* payload), "remove", "learn"
    last,           \* the handler that ran last and its observable effects
    group_id,       \* raft_rpc::_group_id
    server_id       \* raft_rpc::_server_id

vars == <<gate_count, gate_stopped, abort_pc, crashed, in_flight, addr_map, admin, last,
          group_id, server_id>>

\* the two identifiers fixed by the constructor
identity == <<group_id, server_id>>

\* A send in flight: its operation ("one_way": the with_gate chain of a
\* fire-and-forget operation, or one of the request/response operations), its
\* destination id, and its phase:
\* "sending": the messaging service holds the send;
\* "finishing": the body's future is resolved, finally's gate.leave() is scheduled.
\* The six fire-and-forget chains differ in the messaging verb and in the text
\* of the log line only; a chain in flight is kept without them.
\* "abort_requested": as "sending", for a snapshot whose caller has raised the
\* abort_source it gave to send_snapshot.
Kinds ==
    [op : {"one_way"}, id : Ids, phase : {"sending", "finishing"}]
        \cup [op : RequestResponse, id : Ids, phase : {"sending"}]
        \cup [op : {"send_snapshot"}, id : Ids, phase : {"abort_requested"}]

Kind(o, i, p) == [op |-> o, id |-> i, phase |-> p]

RECURSIVE SumOver(_, _)
SumOver(f, S) ==
    IF S = {} THEN 0
    ELSE LET k == CHOOSE x \in S : TRUE IN f[k] + SumOver(f, S \ {k})

\* number of with_gate chains entered and not yet left
Tracked == SumOver(in_flight, {k \in Kinds : k.op = "one_way"})

\* everything in flight, gate-tracked or not
InFlightTotal == SumOver(in_flight, Kinds)

\* "arg": the message the handler was given; "called": the calls the step
\* made on the consensus engine (_client)
Observed(kind, verb, id, outcome, ret, sent, logged) ==
    [kind |-> kind, verb |-> verb, id |-> id, outcome |-> outcome,
     ret |-> ret, sent |-> sent, logged |-> logged, arg |-> "-", called |-> <<>>]

\* ---------------------------------------------------------------- registry
\* raft_group_registry and the inet_address serializer are not part of the
\* sources at hand; they follow the contract the specification gives:
\* resolve(id) -> address or not-found; insert(id, address, expirable);
\* remove(id), idempotent.

\* whether get_inet_address(id) finds an address (it throws when not)
address_known(id) == id \in DOMAIN addr_map

get_inet_address(id) == addr_map[id].addr

update_address_mapping(m, id, addr, expiring) ==
    [i \in DOMAIN m \cup {id} |->
        IF i = id THEN [addr |-> addr, expirable |-> expiring] ELSE m[i]]

remove_address_mapping(m, id) == [i \in DOMAIN m \ {id} |-> m[i]]

\* ser::deserialize(in, boost::type<gms::inet_address>()) fails when the
\* payload is too short to hold an address
decodes(info) == Len(info) > 0

\* and otherwise reads the address from the front of the payload
deserialize(info) == Head(info)

Init ==
    /\ gate_count = 0
    /\ gate_stopped = FALSE
    /\ abort_pc = "idle"
    /\ crashed = FALSE
    /\ in_flight = [k \in Kinds |-> 0]
    /\ addr_map = [i \in {} |-> 0]
    /\ admin = [i \in Ids |-> [op |-> "none", info |-> <<>>]]
    /\ last = Observed("init", "-", NoId, "-", "-", NoSend, <<>>)
    /\ group_id = "g1"
    /\ server_id = "s0"


\* ---------------------------------------------------------------- gate
\* with_gate(_shutdown_gate, ...) starts with gate::enter(), which throws
\* gate_closed_exception once close() was called
\* (variant: the send is made without asking the gate)
gate_closed_unchecked == FALSE

gate_closed == gate_stopped

\* gate::leave(): --_count; the close() future resolves when the count reaches
\* zero on a stopped gate
\* (variant: the chain ends without leaving the gate)
gate_leave_count_kept(n) == n

gate_leave_count(n) == n - 1

\* ---------------------------------------------------------------- outbound
\* raft::ELECTION_TIMEOUT, in ticks, and raft_group_registry::tick_interval,
\* in milliseconds
ELECTION_TIMEOUT == 10

tick_interval == 100

\* db::no_timeout
no_timeout == <<>>

\* (variant: the whole election timeout)
timeout_whole(now) == <<now + tick_interval * ELECTION_TIMEOUT>>

\* raft_rpc::timeout(): clock::now() + tick_interval * (ELECTION_TIMEOUT.count() / 2)
timeout(now) == <<now + tick_interval * (ELECTION_TIMEOUT \div 2)>>

\* (variant: the origin and the destination are exchanged)
send_args_swapped(verb, id, deadline, msg, now) ==
    [verb |-> verb, addr |-> get_inet_address(id), timeout |-> deadline,
     group |-> group_id, from |-> id, to |-> server_id, msg |-> msg, at |-> now]

\* the arguments of _messaging.send_raft_X(msg_addr(get_inet_address(id)),
\* deadline, _group_id, _server_id, id, msg); "at" holds the readings of the
\* clock made while they were evaluated
send_args(verb, id, deadline, msg, now) ==
    [verb |-> verb, addr |-> get_inet_address(id), timeout |-> deadline,
     group |-> group_id, from |-> server_id, to |-> id, msg |-> msg, at |-> now]

\* .handle_exception of a fire-and-forget send: rpc::timeout_error is dropped,
\* anything else is logged with the destination id; the log lines of the step
\* (variant: a timeout is logged like any other failure)
handle_exception_timeout_logged(id, outcome) ==
    IF outcome \in {"error", "timeout"} THEN <<[id |-> id]>> ELSE <<>>

handle_exception(id, outcome) ==
    IF outcome = "error" THEN <<[id |-> id]>> ELSE <<>>

\* (variant: the operation returns when its send is answered)
one_way_phase_at_return_awaited == "finishing"

\* where the chain of a fire-and-forget operation stands when the operation
\* returns: (void)with_gate(...) drops the future of the chain, the send is
\* with the messaging service
one_way_phase_at_return == "sending"

\* The body shared by the six fire-and-forget operations:
\*   (void)with_gate(_shutdown_gate, [..] {
\*       return _messaging.send_raft_X(msg_addr(_raft_gr.get_inet_address(id)), timeout(), ...)
\*           .handle_exception(...); });
\* get_inet_address is evaluated as an argument, inside the with_gate body and
\* before the send is made: when it throws, no send is made and no
\* handle_exception is attached; futurize_invoke turns the exception into a
\* failed future, and finally's gate.leave() runs at once or as a scheduled
\* task (the future is ready; seastar schedules it when preemption is due).
one_way_rpc(verb, id, msg) ==
    /\ ~crashed
    /\ IF gate_closed
       THEN /\ last' = [Observed("call", verb, id, "-", "gate_closed_exception", NoSend, <<>>)
                          EXCEPT !.arg = msg]
            /\ UNCHANGED <<gate_count, in_flight>>
       ELSE /\ InFlightTotal < MaxInFlight
            /\ IF ~address_known(id)
               THEN /\ \E inline \in BOOLEAN :
                         IF inline
                         THEN UNCHANGED <<gate_count, in_flight>>
                         ELSE /\ gate_count' = gate_count + 1
                              /\ in_flight' = [in_flight EXCEPT ![Kind("one_way", id, "finishing")] = @ + 1]
                    /\ last' = [Observed("call", verb, id, "-", "void", NoSend, <<>>)
                                  EXCEPT !.arg = msg]
               ELSE /\ gate_count' = gate_count + 1
                    /\ in_flight' = [in_flight EXCEPT
                                        ![Kind("one_way", id, one_way_phase_at_return)] = @ + 1]
                    /\ \E now \in Times :
                          last' = [Observed("call", verb, id, "-", "void",
                                            <<send_args(verb, id, timeout(now), msg, <<now>>)>>,
                                            <<>>)
                                     EXCEPT !.arg = msg]
    /\ UNCHANGED <<gate_stopped, abort_pc, crashed, addr_map, admin, identity>>

send_append_entries_reply ==
    \E id \in Ids, msg \in Msgs : one_way_rpc("send_append_entries_reply", id, msg)

send_vote_request ==
    \E id \in Ids, msg \in Msgs : one_way_rpc("send_vote_request", id, msg)

send_vote_reply ==
    \E id \in Ids, msg \in Msgs : one_way_rpc("send_vote_reply", id, msg)

send_timeout_now ==
    \E id \in Ids, msg \in Msgs : one_way_rpc("send_timeout_now", id, msg)

send_read_quorum ==
    \E id \in Ids, msg \in Msgs : one_way_rpc("send_read_quorum", id, msg)

send_read_quorum_reply ==
    \E id \in Ids, msg \in Msgs : one_way_rpc("send_read_quorum_reply", id, msg)

\* The messaging service resolves the future of a fire-and-forget send; the
\* handle_exception continuation runs and resolves the body's future, which
\* schedules finally's gate.leave().
send_completes ==
    \E id \in Ids, outcome \in Outcomes :
        /\ ~crashed
        /\ in_flight[Kind("one_way", id, "sending")] > 0
        /\ in_flight' = [in_flight EXCEPT ![Kind("one_way", id, "sending")] = @ - 1,
                                          ![Kind("one_way", id, "finishing")] = @ + 1]
        /\ last' = Observed("completion", "one_way", id, outcome, "-", NoSend,
                            handle_exception(id, outcome))
        /\ UNCHANGED <<gate_count, gate_stopped, abort_pc, crashed, addr_map, admin, identity>>

\* .finally([&g] { g.leave(); }) of with_gate
gate_leave ==
    \E id \in Ids :
        /\ ~crashed
        /\ in_flight[Kind("one_way", id, "finishing")] > 0
        /\ in_flight' = [in_flight EXCEPT ![Kind("one_way", id, "finishing")] = @ - 1]
        /\ gate_count' = gate_leave_count(gate_count)
        /\ abort_pc' = IF gate_count' = 0 /\ gate_stopped THEN "done" ELSE abort_pc
        /\ last' = Observed("leave", "one_way", id, "-", "-", NoSend, <<>>)
        /\ UNCHANGED <<gate_stopped, crashed, addr_map, admin, identity>>

\* (variant: failures are swallowed as in the fire-and-forget operations)
append_entries_result_swallowed(outcome) == "void"

\* what the caller of send_append_entries finds in the future<> it was given
append_entries_result(outcome) ==
    CASE outcome = "ok" -> "void"
      [] outcome = "timeout" -> "timeout_error"
      [] OTHER -> "error"

\* (variant: a request/response send is entered in the gate)
request_response_gate_count_entered(n) == n + 1

\* the count of the gate after a request/response operation made its send:
\* these operations do not use _shutdown_gate
request_response_gate_count(n) == n

\* The body shared by the request/response operations:
\*   return _messaging.send_raft_X(msg_addr(_raft_gr.get_inet_address(id)),
\*                                 db::no_timeout, _group_id, _server_id, id, ...);
\* the future of the messaging service is returned as it is; the address
\* lookup throws out of the call when the id is unknown
request_response(verb, id, msg) ==
    /\ ~crashed
    /\ InFlightTotal < MaxInFlight
    /\ IF ~address_known(id)
       THEN /\ last' = [Observed("call", verb, id, "-", "not_found", NoSend, <<>>)
                          EXCEPT !.arg = msg]
            /\ UNCHANGED <<in_flight, gate_count>>
       ELSE /\ in_flight' = [in_flight EXCEPT ![Kind(verb, id, "sending")] = @ + 1]
            /\ gate_count' = request_response_gate_count(gate_count)
            /\ last' = [Observed("call", verb, id, "-", "pending",
                                 <<send_args(verb, id, no_timeout, msg, <<>>)>>, <<>>)
                          EXCEPT !.arg = msg]
    /\ UNCHANGED <<gate_stopped, abort_pc, crashed, addr_map, admin, identity>>

\* future<> send_append_entries(id, append_request)
send_append_entries ==
    \E id \in Ids, msg \in Msgs : request_response("send_append_entries", id, msg)

\* future<snapshot_reply> send_snapshot(id, snap, as): the abort_source is not used
send_snapshot ==
    \E id \in Ids, msg \in Msgs : request_response("send_snapshot", id, msg)

\* future<read_barrier_reply> execute_read_barrier_on_leader(id)
execute_read_barrier_on_leader ==
    \E id \in Ids : request_response("execute_read_barrier_on_leader", id, "-")

append_entries_completes ==
    \E id \in Ids, outcome \in Outcomes :
        /\ ~crashed
        /\ in_flight[Kind("send_append_entries", id, "sending")] > 0
        /\ in_flight' = [in_flight EXCEPT ![Kind("send_append_entries", id, "sending")] = @ - 1]
        /\ last' = Observed("completion", "send_append_entries", id, outcome,
                            append_entries_result(outcome), NoSend, <<>>)
        /\ UNCHANGED <<gate_count, gate_stopped, abort_pc, crashed, addr_map, admin, identity>>

\* (variant: a failure becomes a reply)
request_response_result_defaulted(answer, replies) ==
    IF answer \in replies THEN answer ELSE CHOOSE r \in replies : TRUE

\* what the caller of send_snapshot or execute_read_barrier_on_leader finds in
\* the future it was given: the reply or the failure of the messaging service
request_response_result(answer, replies) ==
    IF answer = "timeout" THEN "timeout_error" ELSE answer

\* the messaging service answers a request/response send
request_response_completes(verb, id, answer, replies) ==
    /\ ~crashed
    /\ \E phase \in {"sending", "abort_requested"} :
          /\ Kind(verb, id, phase) \in Kinds
          /\ in_flight[Kind(verb, id, phase)] > 0
          /\ in_flight' = [in_flight EXCEPT ![Kind(verb, id, phase)] = @ - 1]
    /\ last' = Observed("completion", verb, id, answer,
                        request_response_result(answer, replies), NoSend, <<>>)
    /\ UNCHANGED <<gate_count, gate_stopped, abort_pc, crashed, addr_map, admin, identity>>

snapshot_completes ==
    \E id \in Ids, answer \in SnapshotReplies \cup {"timeout", "error"} :
        request_response_completes("send_snapshot", id, answer, SnapshotReplies)

read_barrier_completes ==
    \E id \in Ids, answer \in ReadBarrierReplies \cup {"timeout", "error"} :
        request_response_completes("execute_read_barrier_on_leader", id, answer, ReadBarrierReplies)

\* The caller of send_snapshot raises the abort_source it passed; nothing in
\* the transport is subscribed to it.
request_abort ==
    \E id \in Ids :
        /\ ~crashed
        /\ in_flight[Kind("send_snapshot", id, "sending")] > 0
        /\ in_flight' = [in_flight EXCEPT ![Kind("send_snapshot", id, "sending")] = @ - 1,
                                          ![Kind("send_snapshot", id, "abort_requested")] = @ + 1]
        /\ last' = Observed("request_abort", "send_snapshot", id, "-", "-", NoSend, <<>>)
        /\ UNCHANGED <<gate_count, gate_stopped, abort_pc, crashed, addr_map, admin, identity>>

\* ---------------------------------------------------------------- shutdown
\* the future gate::close() returns, given the count at the call
\* (variant: abort() does not wait for the gate to drain)
close_future_ready(n) == "done"

close_future(n) == IF n = 0 THEN "done" ELSE "waiting"

\* future<> abort() { return _shutdown_gate.close(); }
\* gate::close(): assert(!_stopped); _stopped = promise; resolved at once when
\* the count is zero, else by the leave() that brings the count to zero
abort ==
    /\ ~crashed
    /\ IF gate_stopped
       THEN /\ crashed' = TRUE
            /\ last' = Observed("abort", "-", NoId, "-", "assertion_failure", NoSend, <<>>)
            /\ UNCHANGED <<gate_stopped, abort_pc>>
       ELSE /\ gate_stopped' = TRUE
            /\ abort_pc' = close_future(gate_count)
            /\ last' = Observed("abort", "-", NoId, "-", "future", NoSend, <<>>)
            /\ UNCHANGED crashed
    /\ UNCHANGED <<gate_count, in_flight, addr_map, admin, identity>>

\* ---------------------------------------------------------------- addresses
\* (variant: an existing mapping is kept)
add_server_mapping_keep_first(m, id, info) ==
    IF id \in DOMAIN m THEN m ELSE update_address_mapping(m, id, deserialize(info), FALSE)

\* (variant: the entry is installed as an expiring one)
add_server_mapping_expiring(m, id, info) ==
    update_address_mapping(m, id, deserialize(info), TRUE)

\* the entry add_server installs: the decoded address, never expiring
add_server_mapping(m, id, info) ==
    update_address_mapping(m, id, deserialize(info), FALSE)

\* (variant: the old mapping is dropped before the payload is decoded)
add_server_failed_mapping_dropped(m, id) == remove_address_mapping(m, id)

\* the map after an add_server whose payload does not decode: deserialize
\* throws while the arguments of update_address_mapping are evaluated, so the
\* registry is not called
add_server_failed_mapping(m, id) == m

\* what a call finds in the map for id
found(id) ==
    CASE ~address_known(id) -> "absent"
      [] addr_map[id].expirable -> "learned"
      [] OTHER -> "administered"

\* void add_server(id, info): the payload is decoded before the registry is
\* called, so a decoding failure leaves the map as it was
add_server ==
    \E id \in Ids, info \in Payloads :
        /\ ~crashed
        /\ IF ~decodes(info)
           THEN /\ addr_map' = add_server_failed_mapping(addr_map, id)
                /\ last' = Observed("add_server", "-", id, found(id), "decode_error", NoSend, <<>>)
                /\ UNCHANGED admin
           ELSE /\ addr_map' = add_server_mapping(addr_map, id, info)
                /\ admin' = [admin EXCEPT ![id] = [op |-> "add", info |-> info]]
                /\ last' = Observed("add_server", "-", id, found(id), "void", NoSend, <<>>)
        /\ UNCHANGED <<gate_count, gate_stopped, abort_pc, crashed, in_flight, identity>>

\* (variant: only administered entries are removed)
remove_server_mapping_administered_only(m, id) ==
    IF id \in DOMAIN m /\ m[id].expirable THEN m ELSE remove_address_mapping(m, id)

remove_server_mapping(m, id) == remove_address_mapping(m, id)

\* void remove_server(id)
remove_server ==
    \E id \in Ids :
        /\ ~crashed
        /\ addr_map' = remove_server_mapping(addr_map, id)
        /\ admin' = [admin EXCEPT ![id] = [op |-> "remove", info |-> <<>>]]
        /\ last' = Observed("remove_server", "-", id, found(id), "void", NoSend, <<>>)
        /\ UNCHANGED <<gate_count, gate_stopped, abort_pc, crashed, in_flight, identity>>

\* The registry learns the address of an unknown sender from a received
\* message; such an entry is expirable.
learn_address ==
    \E id \in Ids, a \in Addrs :
        /\ ~crashed
        /\ ~address_known(id)
        /\ addr_map' = update_address_mapping(addr_map, id, a, TRUE)
        /\ admin' = [admin EXCEPT ![id] = [op |-> "learn", info |-> <<>>]]
        /\ last' = Observed("learn", "-", id, "-", "-", NoSend, <<>>)
        /\ UNCHANGED <<gate_count, gate_stopped, abort_pc, crashed, in_flight, identity>>

\* ---------------------------------------------------------------- inbound
\* The consensus engine (raft::rpc::_client, an rpc_server) is not part of the
\* sources at hand; it is bound before the messaging service delivers anything.
\* A handler is given the origin and the message and answers: the two
\* request/response handlers with a reply or a failure, the others by
\* returning or by throwing.
VoidAnswers == {"void", "error"}

\* one call on the consensus engine
\* (variant: the engine is told that the message is this server's own)
client_call_local_origin(handler, from, msg) ==
    [handler |-> handler, from |-> server_id, msg |-> msg]

client_call(handler, from, msg) == [handler |-> handler, from |-> from, msg |-> msg]

\* (variant: a failure of the handler is answered with a reply)
dispatch_result_defaulted(answer, replies) ==
    IF answer = "error" THEN CHOOSE r \in replies : TRUE ELSE answer

\* what the dispatcher hands back to the messaging service: the value or the
\* failure of the handler, as it is
dispatch_result(answer, replies) == answer

\* The body shared by the nine dispatchers: _client->handler(from, msg),
\* returned where the handler returns a future. No dispatcher looks at the gate.
dispatch(verb, handler, from, msg, answer, replies) ==
    /\ ~crashed
    /\ last' = [Observed("dispatch", verb, from, answer, dispatch_result(answer, replies),
                         NoSend, <<>>)
                  EXCEPT !.arg = msg, !.called = <<client_call(handler, from, msg)>>]
    /\ UNCHANGED <<gate_count, gate_stopped, abort_pc, crashed, in_flight, addr_map, admin,
                   identity>>

append_entries ==
    \E from \in Ids, msg \in Msgs, answer \in VoidAnswers :
        dispatch("append_entries", "append_entries", from, msg, answer, {"void"})

append_entries_reply ==
    \E from \in Ids, msg \in Msgs, answer \in VoidAnswers :
        dispatch("append_entries_reply", "append_entries_reply", from, msg, answer, {"void"})

request_vote ==
    \E from \in Ids, msg \in Msgs, answer \in VoidAnswers :
        dispatch("request_vote", "request_vote", from, msg, answer, {"void"})

request_vote_reply ==
    \E from \in Ids, msg \in Msgs, answer \in VoidAnswers :
        dispatch("request_vote_reply", "request_vote_reply", from, msg, answer, {"void"})

timeout_now_request ==
    \E from \in Ids, msg \in Msgs, answer \in VoidAnswers :
        dispatch("timeout_now_request", "timeout_now_request", from, msg, answer, {"void"})

read_quorum_request ==
    \E from \in Ids, msg \in Msgs, answer \in VoidAnswers :
        dispatch("read_quorum_request", "read_quorum_request", from, msg, answer, {"void"})

read_quorum_reply ==
    \E from \in Ids, msg \in Msgs, answer \in VoidAnswers :
        dispatch("read_quorum_reply", "read_quorum_reply", from, msg, answer, {"void"})

\* future<read_barrier_reply> execute_read_barrier(from): no message
execute_read_barrier ==
    \E from \in Ids, answer \in ReadBarrierReplies \cup {"error"} :
        dispatch("execute_read_barrier", "execute_read_barrier", from, "-", answer, ReadBarrierReplies)

\* future<snapshot_reply> apply_snapshot(from, snp)
apply_snapshot ==
    \E from \in Ids, msg \in Msgs, answer \in SnapshotReplies \cup {"error"} :
        dispatch("apply_snapshot", "apply_snapshot", from, msg, answer, SnapshotReplies)

Dispatchers ==
    {"append_entries", "append_entries_reply", "request_vote", "request_vote_reply",
     "timeout_now_request", "read_quorum_request", "read_quorum_reply",
     "execute_read_barrier", "apply_snapshot"}

\* ---------------------------------------------------------------- specification
\* the six fire-and-forget operations
OneWay ==
    \/ send_append_entries_reply
    \/ send_vote_request
    \/ send_vote_reply
    \/ send_timeout_now
    \/ send_read_quorum
    \/ send_read_quorum_reply

\* the three request/response operations, their answers and the abort signal
\* of the caller of send_snapshot
Requests ==
    \/ send_snapshot
    \/ send_append_entries
    \/ execute_read_barrier_on_leader
    \/ snapshot_completes
    \/ append_entries_completes
    \/ read_barrier_completes
    \/ request_abort

\* the nine dispatchers
Inbound ==
    \/ append_entries
    \/ append_entries_reply
    \/ request_vote
    \/ request_vote_reply
    \/ timeout_now_request
    \/ read_quorum_request
    \/ read_quorum_reply
    \/ execute_read_barrier
    \/ apply_snapshot

\* The whole transport.
Next ==
    \/ OneWay
    \/ send_completes
    \/ gate_leave
    \/ Requests
    \/ Inbound
    \/ abort
    \/ add_server
    \/ remove_server
    \/ learn_address

Spec == Init /\ [][Next]_vars

\* The state space of Spec grows with the product of what its parts can have in
\* flight and of what their steps show in "last" (542691 states with
\* MaxInFlight = 2, where every safety property below holds as well); the
\* properties are checked on the parts below. Each part keeps every action
\* that writes a variable its properties read, "last" aside, which every step
\* overwrites.

\* The gate, the fire-and-forget operations and the address map.
GateNext ==
    \/ OneWay
    \/ send_completes
    \/ gate_leave
    \/ abort
    \/ add_server
    \/ remove_server
    \/ learn_address

GateSpec == Init /\ [][GateNext]_vars

\* Every send handed to the messaging service with a deadline is eventually
\* answered, and the reactor runs every scheduled continuation.
GateLiveSpec == GateSpec /\ WF_vars(send_completes) /\ WF_vars(gate_leave)

\* The request/response operations next to the gate: one fire-and-forget
\* operation keeps the gate busy.
RequestNext ==
    \/ Requests
    \/ send_vote_request
    \/ send_completes
    \/ gate_leave
    \/ abort
    \/ add_server
    \/ remove_server

RequestSpec == Init /\ [][RequestNext]_vars

\* A request/response send has no deadline: nothing makes the messaging
\* service answer it.
RequestLiveSpec == RequestSpec /\ WF_vars(send_completes) /\ WF_vars(gate_leave)

\* Every outbound operation, with the gate open.
SendNext ==
    \/ OneWay
    \/ send_completes
    \/ gate_leave
    \/ Requests
    \/ add_server

SendSpec == Init /\ [][SendNext]_vars

\* The dispatchers in every phase of the gate.
DispatchNext ==
    \/ Inbound
    \/ send_vote_request
    \/ send_completes
    \/ gate_leave
    \/ abort
    \/ learn_address

DispatchSpec == Init /\ [][DispatchNext]_vars


\* ---------------------------------------------------------------- properties
OneWayCall == last.kind = "call" /\ last.verb \in FireAndForget

\* C1: a fire-and-forget operation invoked while the gate is closing or closed
\* (close() was called; the gate is unchanged by the invocation) hands nothing
\* to the messaging service.
C1_NoSendOnceClosing ==
    (OneWayCall /\ gate_stopped) => last.sent = NoSend

\* a fire-and-forget operation invoked while abort() waits for a send in flight
C1_Witness ==
    /\ OneWayCall /\ last.verb = "send_vote_request"
    /\ gate_stopped /\ abort_pc = "waiting" /\ gate_count > 0
    /\ last.sent = NoSend

\* C2: once the future of abort() is resolved no gate-tracked send is in
\* flight, in that state and in every later one; the future is not resolved
\* while one is in flight.
C2_DrainedAfterAbort ==
    abort_pc = "done" => (gate_count = 0 /\ Tracked = 0)

\* abort() waited, and the last chain to leave the gate resolved its future
C2_Witness ==
    abort_pc = "done" /\ last.kind = "leave" /\ gate_count = 0

\* C3: the gate's count is the number of fire-and-forget chains that entered
\* the gate and have not finished, whatever way they end; it is never negative.
C3_CountMatchesInFlight ==
    gate_count = Tracked /\ gate_count >= 0

\* a chain whose address lookup failed has left the gate while a send to
\* another id is still in flight
C3_Witness ==
    /\ last.kind = "leave" /\ last.id = "s2" /\ ~address_known("s2")
    /\ gate_count = 1 /\ in_flight[Kind("one_way", "s1", "sending")] = 1

\* C4: when every send is answered, a waiting abort() returns, whatever was in
\* flight when it was called and whatever fire-and-forget calls come while it
\* waits. (The process ending on the assertion of a second close() is the
\* subject of another property.)
C4_AbortReturns ==
    (abort_pc = "waiting") ~> (abort_pc = "done" \/ crashed)

\* abort() waits for two sends and a fire-and-forget operation is invoked meanwhile
C4_Witness ==
    abort_pc = "waiting" /\ gate_count = 2 /\ OneWayCall

\* C5: when the send of a fire-and-forget operation is answered, a timeout and
\* a success log nothing, any other failure logs exactly one line, naming the
\* destination id; the invocation and the leaving of the gate log nothing.
C5_LogOnlyOtherFailures ==
    /\ (last.kind = "completion" /\ last.verb = "one_way") =>
          /\ last.outcome = "error" => last.logged = <<[id |-> last.id]>>
          /\ last.outcome \in {"ok", "timeout"} => last.logged = <<>>
    /\ (OneWayCall \/ last.kind = "leave") => last.logged = <<>>

\* a send to s2 failed with something other than a timeout
C5_Witness ==
    /\ last.kind = "completion" /\ last.verb = "one_way"
    /\ last.outcome = "error" /\ last.id = "s2" /\ Len(last.logged) = 1


\* C6: a fire-and-forget operation returns normally to its caller in every
\* phase of the gate and whatever becomes of the send.
C6_ReturnsNormally ==
    OneWayCall => last.ret = "void"

\* the values of raft::append_reply
AppendReplies == {"append_reply_accepted", "append_reply_rejected"}

AppendEntriesAnswered == last.kind = "completion" /\ last.verb = "send_append_entries"

\* C7, as claimed: when the messaging service answers send_append_entries with
\* success, the caller receives an append reply value.
C7_ReturnsReplyValue ==
    (AppendEntriesAnswered /\ last.outcome = "ok") => last.ret \in AppendReplies

\* C7, amended: the future<> of send_append_entries resolves without a value
\* when the messaging service completes the send, and with the failure of the
\* messaging service when it fails; an unknown destination id fails the call
\* and nothing is sent.
C7_CompletionOrFailure ==
    /\ AppendEntriesAnswered =>
          /\ last.outcome = "ok" => last.ret = "void"
          /\ last.outcome = "timeout" => last.ret = "timeout_error"
          /\ last.outcome = "error" => last.ret = "error"
    /\ (last.kind = "call" /\ last.verb = "send_append_entries") =>
          (last.ret = "not_found" <=> last.sent = NoSend)

\* the messaging service failed a send_append_entries to s1
C7_Witness ==
    AppendEntriesAnswered /\ last.outcome = "error" /\ last.id = "s1" /\ last.ret = "error"

\* C8: an id whose mapping was last changed by add_server resolves to the
\* address decoded from the payload of that call; an id whose mapping was last
\* changed by remove_server, or was never changed, does not resolve. (Every
\* call changes the history of its own id only, so a call that altered the
\* mapping of another id would break this for that id.)
C8_LastWriteWins ==
    \A i \in Ids :
        /\ admin[i].op = "add" =>
              (address_known(i) /\ get_inet_address(i) = deserialize(admin[i].info))
        /\ admin[i].op \in {"none", "remove"} => ~address_known(i)

\* add_server replaced an administered mapping of s1, after s2 was removed
C8_Witness ==
    /\ last.kind = "add_server" /\ last.id = "s1" /\ last.outcome = "administered"
    /\ get_inet_address("s1") = 20
    /\ admin["s2"].op = "remove"

\* C9: a mapping installed by add_server is not expirable, also when it
\* replaced a learned, expirable one.
C9_AddServerNeverExpires ==
    \A i \in Ids :
        admin[i].op = "add" => (address_known(i) /\ ~addr_map[i].expirable)

\* add_server replaced a learned mapping
C9_Witness ==
    /\ last.kind = "add_server" /\ last.outcome = "learned"
    /\ ~addr_map[last.id].expirable

\* C10: remove_server leaves no mapping for the id, whether it was
\* administered, learned or absent, it returns normally, and removing again
\* changes nothing.
C10_RemoveIsIdempotent ==
    /\ \A i \in Ids : admin[i].op = "remove" => ~address_known(i)
    /\ last.kind = "remove_server" => last.ret = "void"
    /\ \A i \in Ids :
          LET once == remove_server_mapping(addr_map, i)
          IN  /\ i \notin DOMAIN once
              /\ remove_server_mapping(once, i) = once

\* remove_server removed a learned mapping
C10_Witness ==
    /\ last.kind = "remove_server" /\ last.outcome = "learned"
    /\ ~address_known(last.id)


\* C11: an add_server whose payload does not decode fails and leaves the whole
\* address map as it was; an add_server that returns normally had a payload
\* that decodes.
C11_DecodeFailureLeavesMap ==
    [][last'.kind = "add_server" =>
          IF last'.ret = "decode_error"
          THEN addr_map' = addr_map
          ELSE admin'[last'.id].op = "add" /\ decodes(admin'[last'.id].info)]_vars

\* an undecodable payload for an id that has a learned, expirable mapping
C11_Witness ==
    /\ last.kind = "add_server" /\ last.ret = "decode_error" /\ last.outcome = "learned"
    /\ address_known(last.id) /\ addr_map[last.id].expirable

\* C12: a second abort() is safe: the process does not end on an assertion.
C12_SecondAbortIsSafe ==
    last.kind = "abort" => (last.ret = "future" /\ ~crashed)

RequestResponseCall == last.kind = "call" /\ last.verb \in RequestResponse

RequestResponseAnswered == last.kind = "completion" /\ last.verb \in RequestResponse

\* C13: the request/response operations are outside the gate: a step of one
\* (its invocation, its answer) leaves the count of the gate, the closing of
\* the gate and the future of abort() as they were; the future of abort()
\* waits only while the count of the gate is positive, so it resolves with
\* such calls in flight; and an invocation for an id with a known address
\* hands its send to the messaging service in every phase of the gate.
C13_NotGateTracked ==
    [][/\ last'.verb \in RequestResponse =>
             /\ gate_count' = gate_count
             /\ gate_stopped' = gate_stopped
             /\ abort_pc' = abort_pc
             /\ (last'.kind = "call" /\ address_known(last'.id)) => Len(last'.sent) = 1
       /\ abort_pc' = "waiting" => gate_count' > 0]_vars

\* send_snapshot hands its send to the messaging service after abort() has
\* returned, while a send_append_entries is still in flight
C13_Witness ==
    /\ RequestResponseCall /\ last.verb = "send_snapshot" /\ Len(last.sent) = 1
    /\ abort_pc = "done" /\ gate_count = 0
    /\ \E i \in Ids : in_flight[Kind("send_append_entries", i, "sending")] = 1

\* C14: a request/response operation hands every failure to its caller: the
\* timeout and the other failure of the messaging service as the failure of
\* the future it returned, an unknown destination id as the failure of the
\* call, with nothing sent; no step of these operations logs anything.
C14_FailuresPropagate ==
    /\ RequestResponseAnswered =>
          /\ last.outcome = "timeout" => last.ret = "timeout_error"
          /\ last.outcome = "error" => last.ret = "error"
          /\ last.logged = <<>>
    /\ RequestResponseCall =>
          /\ ~address_known(last.id) => (last.ret = "not_found" /\ last.sent = NoSend)
          /\ last.logged = <<>>

\* the messaging service reported a timeout for a snapshot
C14_Witness ==
    /\ RequestResponseAnswered /\ last.verb = "send_snapshot"
    /\ last.outcome = "timeout" /\ last.ret = "timeout_error"

\* C15: a dispatcher calls the consensus engine exactly once, the handler of
\* its own name, with the origin and the message it was given; what the
\* handler answers (for execute_read_barrier and apply_snapshot: the reply or
\* the failure) is what the dispatcher returns; the gate plays no part; no
\* other step calls the engine.
C15_DispatchForwards ==
    /\ last.kind = "dispatch" =>
          /\ last.verb \in Dispatchers
          /\ last.called = <<[handler |-> last.verb, from |-> last.id, msg |-> last.arg]>>
          /\ last.ret = last.outcome
    /\ last.kind # "dispatch" => last.called = <<>>

\* apply_snapshot from s2 after abort() returned; the engine refuses the snapshot
C15_Witness ==
    /\ last.kind = "dispatch" /\ last.verb = "apply_snapshot" /\ last.id = "s2"
    /\ last.outcome = "snapshot_reply_failure" /\ last.ret = "snapshot_reply_failure"
    /\ gate_stopped /\ abort_pc = "done"

\* C16: when a fire-and-forget operation that made a send returns, it returns
\* nothing and the send is still with the messaging service: the return does
\* not wait for the answer.
C16_ReturnsBeforeOutcome ==
    (OneWayCall /\ last.sent # NoSend) =>
        /\ last.ret = "void"
        /\ in_flight[Kind("one_way", last.id, "sending")] > 0
        /\ gate_count > 0

\* a second send to the same id while the first was never answered
C16_Witness ==
    /\ OneWayCall /\ last.verb = "send_vote_reply" /\ last.sent # NoSend
    /\ in_flight[Kind("one_way", last.id, "sending")] = 2

\* C17: a fire-and-forget operation admitted by the gate for an id with no
\* known address logs exactly one line, naming the id.
C17_ResolutionFailureLogged ==
    (OneWayCall /\ last.ret = "void" /\ last.sent = NoSend) =>
        last.logged = <<[id |-> last.id]>>

\* C18: a fire-and-forget send carries the deadline
\* now + tick_interval * floor(ELECTION_TIMEOUT / 2), now being the clock at the
\* call; a request/response send carries no deadline and reads no clock.
C18_Deadlines ==
    /\ (OneWayCall /\ last.sent # NoSend) =>
          /\ Len(last.sent[1].at) = 1
          /\ last.sent[1].timeout =
                <<last.sent[1].at[1] + tick_interval * (ELECTION_TIMEOUT \div 2)>>
    /\ (RequestResponseCall /\ last.sent # NoSend) =>
          /\ last.sent[1].timeout = no_timeout
          /\ last.sent[1].at = <<>>

\* a fire-and-forget send made when the clock read 30
C18_Witness ==
    /\ OneWayCall /\ last.verb = "send_timeout_now" /\ last.sent # NoSend
    /\ last.sent[1].at = <<30>> /\ last.sent[1].timeout = <<530>>

OutboundCall == OneWayCall \/ RequestResponseCall

\* C19: an outbound operation makes at most one send, and no other step makes
\* one (no retry when a send is answered with a timeout or a failure); the
\* send goes to the address the destination id resolves to, for the verb of
\* the operation, with the group id and the server id of the constructor, the
\* destination id and the message of the caller; the two identifiers never
\* change.
C19_OneSendAsGiven ==
    /\ Len(last.sent) <= 1
    /\ ~OutboundCall => last.sent = NoSend
    /\ (OutboundCall /\ last.sent # NoSend) =>
          /\ address_known(last.id)
          /\ last.sent[1].addr = addr_map[last.id].addr
          /\ last.sent[1].verb = last.verb
          /\ last.sent[1].group = "g1"
          /\ last.sent[1].from = "s0"
          /\ last.sent[1].to = last.id
          /\ last.sent[1].msg = last.arg
    /\ group_id = "g1"
    /\ server_id = "s0"

\* a vote request with m2 for s2, whose address was given twice, while s1 has
\* another address
C19_Witness ==
    /\ OneWayCall /\ last.verb = "send_vote_request" /\ last.id = "s2" /\ last.arg = "m2"
    /\ last.sent # NoSend /\ last.sent[1].addr = 20 /\ last.sent[1].msg = "m2"
    /\ address_known("s1") /\ addr_map["s1"].addr = 10

SnapshotAbortRequested ==
    \E i \in Ids : in_flight[Kind("send_snapshot", i, "abort_requested")] > 0

\* C20: once the caller of send_snapshot has raised its abort signal, the
\* snapshot call comes to an end, answered or not. (Nothing obliges the
\* messaging service to answer a send without a deadline: the fairness of
\* RequestLiveSpec covers the fire-and-forget chains only.)
C20_AbortSignalHonored ==
    SnapshotAbortRequested ~> ~SnapshotAbortRequested

====
